---- MODULE Spec2Model ----
(***************************************************************************)
(* Inventory and tiered-portion pricing engine of the point-of-sale app.   *)
(*                                                                         *)
(* The React components (InventoryManager, PortionSelector,                *)
(* PortionPriceEditor, LowStockAlert) are modelled from their source; the  *)
(* zustand store they call (useStore) is not part of the source tree and   *)
(* is modelled from the written specification of the engine.               *)
(*                                                                         *)
(* Conventions                                                             *)
(*   - a JavaScript number is a record [t, v]: t = "num" with integer      *)
(*     value v, or t = "nan" / "inf" / "undef" (NaN, Infinity, undefined); *)
(*   - the value of a text input is a record [k, v]: k = "empty" for '',   *)
(*     k = "num" for the decimal string of the integer v, k = "text" for   *)
(*     a non-numeric string such as 'custom';                              *)
(*   - a priceMultiplier is kept in tenths (0.5 is 5, 13.3 is 133);        *)
(*   - the result of Array.find is a sequence of length 0 or 1.            *)
(***************************************************************************)
EXTENDS Integers, Sequences, FiniteSets, TLC

VARIABLES
    categories,           \* store: Category[]  [id, name]
    menuItems,            \* store: MenuItem[]  [id, category (a name), price]
    inventoryCategories,  \* store: InventoryCategory[]
    portionOptions,       \* store: PortionOption[]
    inventoryItems,       \* store: InventoryItem[]
    itemPortionPrices,    \* store: the ItemPortionPrice overrides
    lowStockItems,        \* store: the low-stock list shown by the UI
    nextId,               \* store: the next record id it hands out
    stockMenuItemId,      \* InventoryManager: item selected in the Add Stock form
    bottleCount,          \* InventoryManager: bottle quick-entry fields
    bottleSize,
    customBottleSize,
    toast,                \* the last toast shown
    selectorItem,         \* PortionSelector: the menu item it is open for, or ""
    lastSale,             \* the last (item, portion, price) passed on to the order
    editBottleSizeItemId, \* InventoryManager: item of the Edit Bottle Size modal, or ""
    editBottleSizeValue,  \* InventoryManager: the size field of that modal
    removal,              \* handleRemoveCategory: the store calls it has still to make
    regs, adds, menuOps   \* how many registrations, stock additions, menu changes

vars == << categories, menuItems, inventoryCategories, portionOptions, inventoryItems,
           itemPortionPrices, lowStockItems, nextId, stockMenuItemId,
           bottleCount, bottleSize, customBottleSize, toast, selectorItem,
           lastSale, editBottleSizeItemId, editBottleSizeValue, removal, regs, adds,
           menuOps >>

storeVars == << categories, menuItems, inventoryCategories, portionOptions, inventoryItems,
                itemPortionPrices, lowStockItems, nextId >>

formVars == << stockMenuItemId, bottleCount, bottleSize, customBottleSize >>

sellVars == << selectorItem, lastSale >>

editVars == << editBottleSizeItemId, editBottleSizeValue >>

-----------------------------------------------------------------------------
(* Bounds of the model *)

MaxRegs == 2
MaxAdds == 2
MaxMenuOps == 1
MaxOverrides == 1

-----------------------------------------------------------------------------
(* JavaScript values *)

Num(n) == [t |-> "num", v |-> n]
NaN == [t |-> "nan", v |-> 0]
Infinity == [t |-> "inf", v |-> 0]
Undefined == [t |-> "undef", v |-> 0]

Empty == [k |-> "empty", v |-> 0]
NumStr(n) == [k |-> "num", v |-> n]
Custom == [k |-> "text", v |-> 0]

\* a string is truthy unless it is ''
Truthy(s) == s.k # "empty"

\* parseFloat of '' or of a non-numeric string is NaN
ParseFloat(s) == IF s.k = "num" THEN Num(s.v) ELSE NaN

\* a * b on numbers (no Infinity arises from the form fields)
Times(a, b) == IF a.t = "num" /\ b.t = "num" THEN Num(a.v * b.v) ELSE NaN

\* a <= n: every comparison with NaN is false
LessEq(a, b) == a.t = "num" /\ b.t = "num" /\ a.v <= b.v

-----------------------------------------------------------------------------
(* Arrays *)

Range(s) == {s[i] : i \in DOMAIN s}

SetMin(S) == CHOOSE x \in S : \A y \in S : x <= y

Find(s, Test(_)) ==
    LET hits == {i \in DOMAIN s : Test(s[i])}
    IN  IF hits = {} THEN << >> ELSE << s[SetMin(hits)] >>

Some(s, Test(_)) == \E i \in DOMAIN s : Test(s[i])

-----------------------------------------------------------------------------
(* Program constants *)

Categories == categories

UNIT_OPTIONS == << "ml", "pcs", "grams", "bottle", "pack" >>

DEFAULT_PORTIONS_ml ==
    << [size |-> 30,   multiplier |-> 5],
       [size |-> 60,   multiplier |-> 10],
       [size |-> 90,   multiplier |-> 15],
       [size |-> 180,  multiplier |-> 28],
       [size |-> 375,  multiplier |-> 55],
       [size |-> 750,  multiplier |-> 100],
       [size |-> 1000, multiplier |-> 133] >>

DEFAULT_PORTIONS_pcs ==
    << [size |-> 1,  multiplier |-> 10],
       [size |-> 20, multiplier |-> 180] >>

\* a variant without the fallback to the pcs template
DEFAULT_PORTIONS_OwnOnly(unit) ==
    IF unit = "ml" THEN DEFAULT_PORTIONS_ml
    ELSE IF unit = "pcs" THEN DEFAULT_PORTIONS_pcs
    ELSE << >>

\* DEFAULT_PORTIONS[selectedUnit] || DEFAULT_PORTIONS.pcs
DEFAULT_PORTIONS(unit) ==
    IF unit = "ml" THEN DEFAULT_PORTIONS_ml ELSE DEFAULT_PORTIONS_pcs

DEFAULT_BOTTLE_SIZES == << 180, 375, 750, 1000 >>

-----------------------------------------------------------------------------
(* The store (useStore): modelled from the specification of the engine *)

\* getInventoryByMenuItemId(menuItemId)
GetInventoryByMenuItemId(items, menuItemId) ==
    Find(items, LAMBDA ii : ii.menuItemId = menuItemId)

\* a ?? b
Coalesce(a, b) == IF a.t = "undef" THEN b ELSE a

DefaultThreshold == 5

\* the default threshold of the category a menu item is in, if it is tracked
CategoryDefaultThreshold(ii, ics, menu) ==
    LET m == Find(menu, LAMBDA x : x.id = ii.menuItemId)
        c == IF m = << >> THEN << >>
             ELSE Find(Categories, LAMBDA x : x.name = m[1].category)
        ic == IF c = << >> THEN << >>
              ELSE Find(ics, LAMBDA x : x.categoryId = c[1].id)
    IN  IF ic = << >> THEN Undefined ELSE ic[1].lowStockThreshold

\* item.lowStockThreshold ?? categoryDefaultThreshold ?? 5
ResolveThreshold(ii, ics, menu) ==
    Coalesce(Coalesce(ii.lowStockThreshold, CategoryDefaultThreshold(ii, ics, menu)),
             Num(DefaultThreshold))

\* a variant with a strict comparison: currentStock < threshold
ComputeLowStockStrict(items, ics, menu) ==
    LET low == SelectSeq(items,
                   LAMBDA ii : LessEq(Num(ii.currentStock + 1), ResolveThreshold(ii, ics, menu)))
    IN  [i \in DOMAIN low |->
            [inventoryItemId |-> low[i].id, menuItemId |-> low[i].menuItemId,
             currentStock |-> low[i].currentStock, unit |-> low[i].unit]]

\* refreshLowStockItems(): scan all InventoryItems in insertion order
ComputeLowStock(items, ics, menu) ==
    LET low == SelectSeq(items,
                   LAMBDA ii : LessEq(Num(ii.currentStock), ResolveThreshold(ii, ics, menu)))
    IN  [i \in DOMAIN low |->
            [inventoryItemId |-> low[i].id, menuItemId |-> low[i].menuItemId,
             currentStock |-> low[i].currentStock, unit |-> low[i].unit]]

\* a variant of addStock that stops at an empty shelf
StoreAddStockClamped(items, menuItemId, quantity) ==
    LET hit == GetInventoryByMenuItemId(items, menuItemId)
    IN  IF hit = << >> \/ quantity.t # "num" THEN items
        ELSE [i \in DOMAIN items |->
                 IF items[i].id = hit[1].id
                 THEN [items[i] EXCEPT !.currentStock =
                          IF @ + quantity.v < 0 THEN 0 ELSE @ + quantity.v]
                 ELSE items[i]]

\* addStock(menuItemId, quantity, unit, notes): NotTracked without an
\* InventoryItem, ValidationError for a quantity that is not finite,
\* otherwise the signed delta is added to currentStock
StoreAddStock(items, menuItemId, quantity) ==
    LET hit == GetInventoryByMenuItemId(items, menuItemId)
    IN  IF hit = << >> \/ quantity.t # "num" THEN items
        ELSE [i \in DOMAIN items |->
                 IF items[i].id = hit[1].id
                 THEN [items[i] EXCEPT !.currentStock = @ + quantity.v]
                 ELSE items[i]]

\* deletePortionOption(id), deleteInventoryItem(id), deleteInventoryCategory(id)
DeleteById(s, id) == SelectSeq(s, LAMBDA r : r.id # id)

\* getItemPortionPrice(menuItemId, portionOptionId): the override or undefined
GetItemPortionPrice(prices, menuItemId, portionId) ==
    LET hit == {r \in prices : r.menuItemId = menuItemId /\ r.portionOptionId = portionId}
    IN  IF hit = {} THEN Undefined ELSE Num((CHOOSE r \in hit : TRUE).price)

\* setItemPortionPrice(menuItemId, portionOptionId, price): create or update
SetItemPortionPrice(prices, menuItemId, portionId, price) ==
    {r \in prices : ~(r.menuItemId = menuItemId /\ r.portionOptionId = portionId)}
        \cup {[menuItemId |-> menuItemId, portionOptionId |-> portionId, price |-> price]}

\* getPortionsByCategory(categoryName): the PortionOptions of the
\* InventoryCategory of the category with that name
GetPortionsByCategory(categoryName, ics, portions) ==
    LET c == Find(Categories, LAMBDA x : x.name = categoryName)
        ic == IF c = << >> THEN << >>
              ELSE Find(ics, LAMBDA x : x.categoryId = c[1].id)
    IN  IF ic = << >> THEN << >>
        ELSE SelectSeq(portions, LAMBDA p : p.inventoryCategoryId = ic[1].id)

-----------------------------------------------------------------------------
(* InventoryManager: derived lists *)

IsTracked(c, ics) == Some(ics, LAMBDA ic : ic.categoryId = c.id)

trackedCategories == SelectSeq(Categories, LAMBDA c : IsTracked(c, inventoryCategories))

\* a variant that offers every category for registration
CategoriesUnfiltered == Categories

unTrackedCategories == SelectSeq(Categories, LAMBDA c : ~IsTracked(c, inventoryCategories))

inventoryMenuItems ==
    SelectSeq(menuItems, LAMBDA m : Some(inventoryItems, LAMBDA ii : ii.menuItemId = m.id))

Toast(kind, msg) == [kind |-> kind, msg |-> msg]

-----------------------------------------------------------------------------
(* InventoryManager.handleAddInventoryCategory *)

\* a variant that ignores the selected unit
NewInventoryItemInPieces(id, menuItemId, unit, threshold) ==
    [id |-> id, menuItemId |-> menuItemId, currentStock |-> 0,
     defaultBottleSize |-> Undefined, unit |-> "pcs", lowStockThreshold |-> threshold]

\* the InventoryItem the handler creates for a menu item
NewInventoryItem(id, menuItemId, unit, threshold) ==
    [id |-> id, menuItemId |-> menuItemId, currentStock |-> 0,
     defaultBottleSize |-> IF unit = "ml" THEN Num(750) ELSE Undefined,
     unit |-> unit, lowStockThreshold |-> threshold]

\* the PortionOptions the handler seeds for a new InventoryCategory, the
\* store giving them the ids firstId, firstId + 1, ...
SeedPortions(invCatId, selectedUnit, firstId) ==
    LET defaultPortions == DEFAULT_PORTIONS(selectedUnit)
    IN  [i \in DOMAIN defaultPortions |->
            [id |-> firstId + i - 1, inventoryCategoryId |-> invCatId,
             size |-> defaultPortions[i].size,
             priceMultiplier |-> defaultPortions[i].multiplier,
             sortOrder |-> i - 1]]

HandleAddInventoryCategory(selectedCategory, selectedUnit, lowStockThreshold) ==
    IF selectedCategory = ""
    THEN /\ toast' = Toast("error", "Select a category")
         /\ UNCHANGED << storeVars, formVars, sellVars, editVars, removal, regs, adds, menuOps >>
    ELSE LET cat == Find(Categories, LAMBDA c : c.id = selectedCategory)
             ics1 == Append(inventoryCategories,
                        [id |-> nextId, categoryId |-> selectedCategory,
                         unitType |-> selectedUnit,
                         lowStockThreshold |-> ParseFloat(lowStockThreshold)])
             newInvCat == Find(ics1, LAMBDA ic : ic.categoryId = selectedCategory)
             seeded == SeedPortions(newInvCat[1].id, selectedUnit, nextId + 1)
             np == Len(seeded)
             pos1 == portionOptions \o seeded
             itemsInCategory == SelectSeq(menuItems, LAMBDA m : m.category = cat[1].name)
             ni == Len(itemsInCategory)
             items1 == inventoryItems \o
                        [j \in 1..ni |->
                            NewInventoryItem(nextId + np + j, itemsInCategory[j].id,
                                             selectedUnit, ParseFloat(lowStockThreshold))]
         IN  /\ cat # << >>
             /\ regs < MaxRegs
             /\ inventoryCategories' = ics1
             /\ portionOptions' = pos1
             /\ inventoryItems' = items1
             /\ lowStockItems' = ComputeLowStock(items1, ics1, menuItems)
             /\ nextId' = nextId + np + ni + 1
             /\ toast' = Toast("success", "added to inventory tracking")
             /\ regs' = regs + 1
             /\ UNCHANGED << categories, menuItems, itemPortionPrices, formVars, sellVars, editVars, removal, adds, menuOps >>

-----------------------------------------------------------------------------
(* InventoryManager.handleRemoveCategory *)

\* the portion options the handler deletes for an InventoryCategory
RemovePortions(portions, invCatId) ==
    LET doomed == SelectSeq(portions, LAMBDA p : p.inventoryCategoryId = invCatId)
    IN  SelectSeq(portions, LAMBDA p : \A i \in DOMAIN doomed : doomed[i].id # p.id)

\* a variant that deletes no InventoryItem
RemovedItemIdsNone(catId, items, menu) == {}

\* the ids of the InventoryItems the handler deletes: for every menu item of
\* the category (matched by name), the first InventoryItem found for it
RemovedItemIds(catId, items, menu) ==
    LET cat == Find(Categories, LAMBDA c : c.id = catId)
        itemsInCat == IF cat = << >> THEN << >>
                      ELSE SelectSeq(menu, LAMBDA m : m.category = cat[1].name)
    IN  {ii.id : ii \in
            {x \in Range(items) : \E i \in DOMAIN itemsInCat :
                GetInventoryByMenuItemId(items, itemsInCat[i].id) = << x >>}}

\* a variant that removes whatever the answer is
ConfirmIgnored(answer) == TRUE

\* confirm('Remove this category from inventory tracking? ...'): OK or Cancel
Confirm(answer) == answer

HandleRemoveCategory(catId, confirmed) ==
    IF ~Confirm(confirmed)
    THEN UNCHANGED vars
    ELSE LET invCat == Find(inventoryCategories, LAMBDA ic : ic.categoryId = catId)
             gone == RemovedItemIds(catId, inventoryItems, menuItems)
             items1 == SelectSeq(inventoryItems, LAMBDA ii : ii.id \notin gone)
             ics1 == DeleteById(inventoryCategories, invCat[1].id)
         IN  /\ IF invCat # << >>
                THEN /\ portionOptions' = RemovePortions(portionOptions, invCat[1].id)
                     /\ inventoryItems' = items1
                     /\ inventoryCategories' = ics1
                     /\ lowStockItems' = ComputeLowStock(items1, ics1, menuItems)
                ELSE UNCHANGED << portionOptions, inventoryItems, inventoryCategories,
                                  lowStockItems >>
             /\ toast' = Toast("success", "Category removed from inventory")
             /\ UNCHANGED << categories, menuItems, itemPortionPrices, nextId, formVars, sellVars, editVars, removal,
                             regs, adds, menuOps >>

\* handleRemoveCategory call by call.  Every delete... call is a store update
\* of its own, so the store passes through the states in between; the handler
\* runs to completion before anything else is handled.

NoRemoval == [catId |-> "", invCatId |-> 0, portionIds |-> << >>, itemIds |-> << >>,
              category |-> FALSE]

\* the ids the handler iterates over, taken from the state it was rendered with
RemovalPortionIds(invCatId) ==
    LET doomed == SelectSeq(portionOptions, LAMBDA p : p.inventoryCategoryId = invCatId)
    IN  [i \in DOMAIN doomed |-> doomed[i].id]

RemovalItemIds(catId) ==
    LET cat == Find(Categories, LAMBDA c : c.id = catId)
        itemsInCat == IF cat = << >> THEN << >>
                      ELSE SelectSeq(menuItems, LAMBDA m :
                               m.category = cat[1].name
                               /\ GetInventoryByMenuItemId(inventoryItems, m.id) # << >>)
    IN  [i \in DOMAIN itemsInCat |->
            GetInventoryByMenuItemId(inventoryItems, itemsInCat[i].id)[1].id]

\* a variant that deletes the InventoryCategory before its rows
NextRemovalCallCategoryFirst(r) ==
    IF r.category THEN "category"
    ELSE IF r.portionIds # << >> THEN "portion"
    ELSE IF r.itemIds # << >> THEN "item"
    ELSE "toast"

\* the store call the handler makes next: the portions, then the items, then
\* the InventoryCategory, then the toast
NextRemovalCall(r) ==
    IF r.portionIds # << >> THEN "portion"
    ELSE IF r.itemIds # << >> THEN "item"
    ELSE IF r.category THEN "category"
    ELSE "toast"

\* confirm(...) answered with OK, and the lookup of invCat
BeginRemoveCategory(catId) ==
    LET invCat == Find(inventoryCategories, LAMBDA ic : ic.categoryId = catId)
    IN  /\ removal = NoRemoval
        /\ removal' = IF invCat = << >>
                      THEN [NoRemoval EXCEPT !.catId = catId]
                      ELSE [catId |-> catId, invCatId |-> invCat[1].id,
                            portionIds |-> RemovalPortionIds(invCat[1].id),
                            itemIds |-> RemovalItemIds(catId), category |-> TRUE]
        /\ UNCHANGED << storeVars, formVars, sellVars, editVars, toast, regs, adds,
                        menuOps >>

\* deletePortionOption(p.id)
DeletePortionOption ==
    /\ removal.catId # ""
    /\ NextRemovalCall(removal) = "portion"
    /\ portionOptions' = DeleteById(portionOptions, Head(removal.portionIds))
    /\ removal' = [removal EXCEPT !.portionIds = Tail(@)]
    /\ UNCHANGED << categories, menuItems, inventoryCategories, inventoryItems, itemPortionPrices,
                    lowStockItems, nextId, formVars, sellVars, editVars, toast, regs,
                    adds, menuOps >>

\* deleteInventoryItem(invItem.id)
DeleteInventoryItem ==
    /\ removal.catId # ""
    /\ NextRemovalCall(removal) = "item"
    /\ inventoryItems' = DeleteById(inventoryItems, Head(removal.itemIds))
    /\ lowStockItems' = ComputeLowStock(inventoryItems', inventoryCategories, menuItems)
    /\ removal' = [removal EXCEPT !.itemIds = Tail(@)]
    /\ UNCHANGED << categories, menuItems, inventoryCategories, portionOptions, itemPortionPrices,
                    nextId, formVars, sellVars, editVars, toast, regs, adds, menuOps >>

\* deleteInventoryCategory(invCat.id)
DeleteInventoryCategory ==
    /\ removal.catId # ""
    /\ NextRemovalCall(removal) = "category"
    /\ inventoryCategories' = DeleteById(inventoryCategories, removal.invCatId)
    /\ lowStockItems' = ComputeLowStock(inventoryItems, inventoryCategories', menuItems)
    /\ removal' = [removal EXCEPT !.category = FALSE]
    /\ UNCHANGED << categories, menuItems, inventoryItems, portionOptions, itemPortionPrices,
                    nextId, formVars, sellVars, editVars, toast, regs, adds, menuOps >>

\* toast.success('Category removed from inventory'): the handler returns
FinishRemoveCategory ==
    /\ removal.catId # ""
    /\ NextRemovalCall(removal) = "toast"
    /\ toast' = Toast("success", "Category removed from inventory")
    /\ removal' = NoRemoval
    /\ UNCHANGED << storeVars, formVars, sellVars, editVars, regs, adds, menuOps >>

-----------------------------------------------------------------------------
(* InventoryManager: the Add Stock form and handleAddStock *)

\* the unit shown for the selected item:
\* inventoryItems.find(i => i.menuItemId === stockMenuItemId)?.unit
SelectedUnit == LET hit == GetInventoryByMenuItemId(inventoryItems, stockMenuItemId)
                IN  IF hit = << >> THEN "" ELSE hit[1].unit

\* the item Select, and the Add Stock button of an item's card
SetStockMenuItemId(m) ==
    /\ Some(inventoryMenuItems, LAMBDA x : x.id = m)
    /\ stockMenuItemId' = m
    /\ UNCHANGED << storeVars, bottleCount, bottleSize, customBottleSize, toast,
                    sellVars, editVars, removal, regs, adds, menuOps >>

\* The bottle quick-entry block, rendered for 'ml' items only: the user
\* fills in the number of bottles, the size and (for 'custom') the custom size
EnterBottles(count, size, customSize) ==
    /\ SelectedUnit = "ml"
    /\ bottleCount' = count
    /\ bottleSize' = size
    /\ customBottleSize' = customSize
    /\ UNCHANGED << storeVars, stockMenuItemId, toast, sellVars, editVars, removal, regs, adds, menuOps >>

\* a variant that rejects only when the item and both quantities are missing
MissingInputAll(itemId, stockQuantity, count) ==
    itemId = "" /\ (~Truthy(stockQuantity) /\ ~Truthy(count))

\* if (!stockMenuItemId || (!stockQuantity && !bottleCount))
MissingInput(itemId, stockQuantity, count) ==
    itemId = "" \/ (~Truthy(stockQuantity) /\ ~Truthy(count))

\* variants: the bottle fields ignored; count and size added up
TotalQuantityIgnoresBottles(stockQuantity, count, size, customSize) ==
    IF Truthy(stockQuantity) THEN ParseFloat(stockQuantity) ELSE Num(0)

TotalQuantityAdds(stockQuantity, count, size, customSize) ==
    IF Truthy(count) /\ Truthy(size)
    THEN LET c == ParseFloat(count)
             z == IF size = Custom THEN ParseFloat(customSize) ELSE ParseFloat(size)
         IN  IF c.t = "num" /\ z.t = "num" THEN Num(c.v + z.v) ELSE NaN
    ELSE IF Truthy(stockQuantity) THEN ParseFloat(stockQuantity)
    ELSE Num(0)

\* a variant that prefers the direct quantity
TotalQuantityDirectFirst(stockQuantity, count, size, customSize) ==
    IF Truthy(stockQuantity) THEN ParseFloat(stockQuantity)
    ELSE IF Truthy(count) /\ Truthy(size)
    THEN Times(ParseFloat(count),
               IF size = Custom THEN ParseFloat(customSize) ELSE ParseFloat(size))
    ELSE Num(0)

\* "Calculate total quantity"
TotalQuantity(stockQuantity, count, size, customSize) ==
    IF Truthy(count) /\ Truthy(size)
    THEN Times(ParseFloat(count),
               IF size = Custom THEN ParseFloat(customSize) ELSE ParseFloat(size))
    ELSE IF Truthy(stockQuantity) THEN ParseFloat(stockQuantity)
    ELSE Num(0)

\* a variant without the not-tracked guard
IsNotTrackedNever(invItem) == FALSE

\* if (!invItem)

IsNotTracked(invItem) == invItem = << >>

\* what handleAddStock does to the store and which toast it shows, as a
\* function of the form fields and the InventoryItems
AddStockOutcome(itemId, stockQuantity, count, size, customSize, items) ==
    LET invItem == GetInventoryByMenuItemId(items, itemId)
        totalQuantity == TotalQuantity(stockQuantity, count, size, customSize)
    IN  IF MissingInput(itemId, stockQuantity, count)
        THEN [toast |-> Toast("error", "Select item and enter quantity"),
              items |-> items, called |-> FALSE]
        ELSE IF IsNotTracked(invItem)
        THEN [toast |-> Toast("error", "Item not tracked in inventory"),
              items |-> items, called |-> FALSE]
        ELSE IF LessEq(totalQuantity, Num(0))
        THEN [toast |-> Toast("error", "Enter a valid quantity"),
              items |-> items, called |-> FALSE]
        ELSE [toast |-> Toast("success", "Stock added successfully"),
              items |-> StoreAddStock(items, itemId, totalQuantity), called |-> TRUE]

\* The Add Stock button of the modal.  The modal is opened by a button that
\* is disabled while no item is tracked, or from the card of a tracked item,
\* and nothing else can be operated while it is open.  stockQuantity is
\* editable whenever the modal is open, so its value is an input here.
HandleAddStock(stockQuantity) ==
    LET out == AddStockOutcome(stockMenuItemId, stockQuantity, bottleCount,
                               bottleSize, customBottleSize, inventoryItems)
    IN  /\ Len(inventoryMenuItems) > 0
        /\ toast' = out.toast
        /\ inventoryItems' = out.items
        /\ lowStockItems' = IF out.called
                            THEN ComputeLowStock(out.items, inventoryCategories, menuItems)
                            ELSE lowStockItems
        /\ IF out.called
           THEN /\ adds < MaxAdds
                /\ adds' = adds + 1
                /\ stockMenuItemId' = ""
                /\ bottleCount' = Empty
                /\ bottleSize' = NumStr(750)
                /\ customBottleSize' = Empty
           ELSE UNCHANGED << adds, formVars >>
        /\ UNCHANGED << categories, menuItems, inventoryCategories, portionOptions, itemPortionPrices,
                        nextId, sellVars, editVars, removal, regs, menuOps >>

\* addStock(menuItemId, quantity, unit, notes) called on the store by a
\* corrective caller (spoilage, a stock correction): no form and no sign check
\* stand between the caller and the ledger
AddStock(menuItemId, quantity) ==
    /\ adds < MaxAdds
    /\ adds' = adds + 1
    /\ inventoryItems' = StoreAddStock(inventoryItems, menuItemId, Num(quantity))
    /\ lowStockItems' = ComputeLowStock(inventoryItems', inventoryCategories, menuItems)
    /\ UNCHANGED << categories, menuItems, inventoryCategories, portionOptions, itemPortionPrices,
                    nextId, formVars, sellVars, editVars, removal, toast, regs, menuOps >>

\* a || b: a unless it is undefined, NaN or 0
Or(a, b) == IF a.t \in {"undef", "nan"} \/ (a.t = "num" /\ a.v = 0) THEN b ELSE a

\* the highlight of an item's card and of its row in the stock list:
\* invItem.currentStock <= (invItem.lowStockThreshold || 5)
IsLow(invItem) ==
    LessEq(Num(invItem.currentStock), Or(invItem.lowStockThreshold, Num(DefaultThreshold)))

-----------------------------------------------------------------------------
(* LowStockAlert *)

\* useStore.getState().refreshLowStockItems() on render
RenderLowStockAlert ==
    /\ lowStockItems' = ComputeLowStock(inventoryItems, inventoryCategories, menuItems)
    /\ UNCHANGED << categories, menuItems, inventoryCategories, portionOptions, inventoryItems,
                    itemPortionPrices, nextId, formVars, toast, sellVars, editVars, removal,
                    regs, adds, menuOps >>

-----------------------------------------------------------------------------
(* Menu management: the menu endpoints of the sync server, mirrored by    *)
(* the client's menuItems                                                  *)


-----------------------------------------------------------------------------
(* InventoryManager: the Edit Bottle Size modal *)

\* The store's updateInventoryItem(id, { defaultBottleSize }): the fields of
\* the patch replace those of the record with that id; the low-stock list is
\* refreshed as after every inventory mutation
UpdateInventoryItem(items, id, size) ==
    [i \in DOMAIN items |->
        IF items[i].id = id THEN [items[i] EXCEPT !.defaultBottleSize = size]
        ELSE items[i]]

\* the pencil button of an 'ml' item in the stock list
OpenEditBottleSize(menuItemId) ==
    LET invItem == GetInventoryByMenuItemId(inventoryItems, menuItemId)
    IN  /\ Some(inventoryMenuItems, LAMBDA x : x.id = menuItemId)
        /\ invItem # << >>
        /\ invItem[1].unit = "ml"
        /\ editBottleSizeItemId' = menuItemId
        /\ editBottleSizeValue' = IF invItem[1].defaultBottleSize.t = "num"
                                     /\ invItem[1].defaultBottleSize.v # 0
                                  THEN NumStr(invItem[1].defaultBottleSize.v)
                                  ELSE NumStr(750)
        /\ UNCHANGED << storeVars, formVars, sellVars, removal, toast, regs, adds, menuOps >>

\* the size Select (a default size or 'custom'), and the Custom Size input that
\* is rendered while the value is 'custom'
SetEditBottleSizeValue(value, typed) ==
    /\ editBottleSizeItemId # ""
    /\ IF typed THEN editBottleSizeValue = Custom /\ value # Custom
       ELSE value = Custom \/ \E i \in DOMAIN DEFAULT_BOTTLE_SIZES :
                                  value = NumStr(DEFAULT_BOTTLE_SIZES[i])
    /\ editBottleSizeValue' = value
    /\ UNCHANGED << storeVars, formVars, sellVars, removal, editBottleSizeItemId, toast,
                    regs, adds, menuOps >>

\* Cancel, and closing the dialog
CancelEditBottleSize ==
    /\ editBottleSizeItemId # ""
    /\ editBottleSizeItemId' = ""
    /\ UNCHANGED << storeVars, formVars, sellVars, removal, editBottleSizeValue, toast,
                    regs, adds, menuOps >>

\* size > 0: false for NaN
SizeAccepted(size) == size.t = "num" /\ size.v > 0

\* the Save button
SaveBottleSize ==
    LET invItem == GetInventoryByMenuItemId(inventoryItems, editBottleSizeItemId)
        size == ParseFloat(editBottleSizeValue)
    IN  /\ editBottleSizeItemId # ""
        /\ IF invItem # << >> /\ SizeAccepted(size)
           THEN /\ inventoryItems' = UpdateInventoryItem(inventoryItems, invItem[1].id, size)
                /\ lowStockItems' = ComputeLowStock(inventoryItems', inventoryCategories,
                                                    menuItems)
                /\ toast' = Toast("success", "Default bottle size updated")
           ELSE UNCHANGED << inventoryItems, lowStockItems, toast >>
        /\ editBottleSizeItemId' = ""
        /\ UNCHANGED << categories, menuItems, inventoryCategories, portionOptions, itemPortionPrices,
                        nextId, formVars, sellVars, removal, editBottleSizeValue, regs, adds,
                        menuOps >>

-----------------------------------------------------------------------------

MenuIds == {"m1", "m2", "m3", "m4"}

CategoryNames == {Categories[i].name : i \in DOMAIN Categories}

\* the InventoryItem created for a menu item added to a tracked category
TrackNewMenuItem(items, ics, id, menuItemId, categoryName) ==
    LET c == Find(Categories, LAMBDA x : x.name = categoryName)
        ic == IF c = << >> THEN << >>
              ELSE Find(ics, LAMBDA x : x.categoryId = c[1].id)
    IN  IF ic = << >> THEN items
        ELSE Append(items, NewInventoryItem(id, menuItemId, ic[1].unitType,
                                            ic[1].lowStockThreshold))

\* POST /api/menu
AddMenuItem(id, category, price) ==
    LET menu1 == Append(menuItems, [id |-> id, category |-> category, price |-> price])
        items1 == TrackNewMenuItem(inventoryItems, inventoryCategories, nextId, id, category)
    IN  /\ menuOps < MaxMenuOps
        /\ ~Some(menuItems, LAMBDA m : m.id = id)
        /\ menuItems' = menu1
        /\ inventoryItems' = items1
        /\ nextId' = IF items1 = inventoryItems THEN nextId ELSE nextId + 1
        /\ lowStockItems' = IF items1 = inventoryItems THEN lowStockItems
                            ELSE ComputeLowStock(items1, inventoryCategories, menu1)
        /\ menuOps' = menuOps + 1
        /\ UNCHANGED << categories, inventoryCategories, portionOptions, itemPortionPrices, formVars,
                        toast, sellVars, editVars, removal, regs, adds >>

\* PUT /api/menu/:id
UpdateMenuItem(id, category, price) ==
    /\ menuOps < MaxMenuOps
    /\ Some(menuItems, LAMBDA m : m.id = id)
    /\ menuItems' = [i \in DOMAIN menuItems |->
                        IF menuItems[i].id = id
                        THEN [id |-> id, category |-> category, price |-> price]
                        ELSE menuItems[i]]
    /\ menuItems' # menuItems
    /\ menuOps' = menuOps + 1
    /\ UNCHANGED << categories, inventoryCategories, portionOptions, inventoryItems, itemPortionPrices,
                    lowStockItems, nextId, formVars, toast, sellVars, editVars, removal, regs, adds >>

\* DELETE /api/menu/:id
DeleteMenuItem(id) ==
    /\ menuOps < MaxMenuOps
    /\ Some(menuItems, LAMBDA m : m.id = id)
    /\ menuItems' = SelectSeq(menuItems, LAMBDA m : m.id # id)
    /\ selectorItem' = IF selectorItem = id THEN "" ELSE selectorItem
    /\ menuOps' = menuOps + 1
    /\ UNCHANGED << lastSale, editVars, removal >>
    /\ UNCHANGED << categories, inventoryCategories, portionOptions, inventoryItems, itemPortionPrices,
                    lowStockItems, nextId, formVars, toast, regs, adds >>

-----------------------------------------------------------------------------
(* PortionSelector *)

\* Math.round(a / b) for b > 0: halves round up
Round(a, b) == (2 * a + b) \div (2 * b)

MinMultiplier(portions) == SetMin({portions[i].priceMultiplier : i \in DOMAIN portions})

\* variants: truncation instead of rounding; a base multiplier of 1 assumed
GetPortionPriceFloor(price, portion, portions) ==
    LET baseMultiplier == MinMultiplier(portions)
    IN  IF baseMultiplier = 0 THEN NaN
        ELSE Num((price * portion.priceMultiplier) \div baseMultiplier)

GetPortionPriceUnit(price, portion, portions) ==
    Num(Round(price * portion.priceMultiplier, 10))

\* a variant with the two multipliers swapped
GetPortionPriceSwapped(price, portion, portions) ==
    LET baseMultiplier == MinMultiplier(portions)
    IN  IF portion.priceMultiplier = 0 THEN NaN
        ELSE Num(Round(price * baseMultiplier, portion.priceMultiplier))

\* getPortionPrice(portion): Math.round((item.price / baseMultiplier) * multiplier)
GetPortionPrice(price, portion, portions) ==
    LET baseMultiplier == MinMultiplier(portions)
    IN  IF baseMultiplier = 0
        THEN IF price = 0 \/ portion.priceMultiplier = 0 THEN NaN ELSE Infinity
        ELSE Num(Round(price * portion.priceMultiplier, baseMultiplier))

\* the portions and prices the selector renders for an item: none when the
\* item's category has no portions (the component returns null)
SelectorPortions(m) == GetPortionsByCategory(m.category, inventoryCategories, portionOptions)

\* a variant that renders one button even without portions, priced with
\* Math.min() of no multipliers: Math.round(price / Infinity) is 0
OfferedWithoutPortions(m) ==
    LET portions == SelectorPortions(m)
    IN  IF portions = << >>
        THEN << [portionId |-> 0, price |-> Num(0)] >>
        ELSE [i \in DOMAIN portions |->
                [portionId |-> portions[i].id,
                 price |-> GetPortionPrice(m.price, portions[i], portions)]]

Offered(m) ==
    LET portions == SelectorPortions(m)
    IN  [i \in DOMAIN portions |->
            [portionId |-> portions[i].id,
             price |-> GetPortionPrice(m.price, portions[i], portions)]]

OpenPortionSelector(id) ==
    /\ Some(menuItems, LAMBDA m : m.id = id)
    /\ selectorItem' = id
    /\ UNCHANGED << storeVars, formVars, editVars, removal, toast, lastSale, regs, adds, menuOps >>

NoSale == [menuItemId |-> "", portionId |-> 0, price |-> Undefined]

\* the button of the k-th portion: onSelect(item, portion, price); onClose()
SelectPortion(k) ==
    LET item == Find(menuItems, LAMBDA m : m.id = selectorItem)
    IN  /\ item # << >>
        /\ k \in DOMAIN Offered(item[1])
        /\ lastSale' = [menuItemId |-> item[1].id,
                        portionId |-> Offered(item[1])[k].portionId,
                        price |-> Offered(item[1])[k].price]
        /\ selectorItem' = ""
        /\ UNCHANGED << storeVars, formVars, editVars, removal, toast, regs, adds, menuOps >>

\* the X button and the backdrop of the dialog: onClose()
ClosePortionSelector ==
    /\ selectorItem # ""
    /\ selectorItem' = ""
    /\ UNCHANGED << storeVars, formVars, editVars, removal, toast, lastSale, regs, adds, menuOps >>

\* The order screen that invokes the selector: an item whose category has no
\* PortionOptions goes to the order at its plain base price, without the
\* selector; for any other item the selector is opened
AddToOrder(id) ==
    LET item == Find(menuItems, LAMBDA m : m.id = id)
    IN  /\ item # << >>
        /\ selectorItem = ""
        /\ IF SelectorPortions(item[1]) = << >>
           THEN /\ lastSale' = [menuItemId |-> id, portionId |-> 0,
                                price |-> Num(item[1].price)]
                /\ UNCHANGED selectorItem
           ELSE /\ selectorItem' = id
                /\ UNCHANGED lastSale
        /\ UNCHANGED << storeVars, formVars, editVars, removal, toast, regs, adds, menuOps >>

-----------------------------------------------------------------------------
(* PortionPriceEditor *)

\* the fields as initialised on opening: itemPrice?.toString() || ''
InitialPrices(menuItemId, portions) ==
    [i \in DOMAIN portions |->
        LET itemPrice == GetItemPortionPrice(itemPortionPrices, menuItemId, portions[i].id)
        IN  IF itemPrice.t = "num" THEN NumStr(itemPrice.v) ELSE Empty]

\* a variant in which an emptied field takes the override away
SavePortionClearing(prices, menuItemId, portionId, priceStr) ==
    LET currentPrice == GetItemPortionPrice(prices, menuItemId, portionId)
    IN  IF ~Truthy(priceStr)
        THEN {r \in prices : ~(r.menuItemId = menuItemId /\ r.portionOptionId = portionId)}
        ELSE IF ParseFloat(priceStr) # currentPrice
        THEN SetItemPortionPrice(prices, menuItemId, portionId, ParseFloat(priceStr).v)
        ELSE prices

\* handleSave: one portion's step of the forEach
SavePortion(prices, menuItemId, portionId, priceStr) ==
    LET currentPrice == GetItemPortionPrice(prices, menuItemId, portionId)
    IN  IF Truthy(priceStr) /\ ParseFloat(priceStr) # currentPrice
        THEN SetItemPortionPrice(prices, menuItemId, portionId, ParseFloat(priceStr).v)
        ELSE prices

RECURSIVE SaveAll(_, _, _, _, _)
SaveAll(prices, menuItemId, portions, fields, i) ==
    IF i > Len(portions) THEN prices
    ELSE SaveAll(SavePortion(prices, menuItemId, portions[i].id, fields[i]),
                 menuItemId, portions, fields, i + 1)

\* The editor is opened from the card of a tracked category for one of the
\* menu items of that category; the user changes field k to v and saves.
\* (Fields are saved independently, so a save of several changed fields is
\* a sequence of such saves.)
HandleSave(catId, menuItemId, k, v) ==
    LET cat == Find(Categories, LAMBDA c : c.id = catId)
        invCat == Find(inventoryCategories, LAMBDA ic : ic.categoryId = catId)
        portions == SelectSeq(portionOptions,
                              LAMBDA p : p.inventoryCategoryId = invCat[1].id)
        fields == [InitialPrices(menuItemId, portions) EXCEPT ![k] = v]
        saved == SaveAll(itemPortionPrices, menuItemId, portions, fields, 1)
    IN  /\ invCat # << >>
        /\ Some(menuItems, LAMBDA m : m.id = menuItemId /\ m.category = cat[1].name)
        /\ k \in DOMAIN portions
        /\ Cardinality(saved) <= MaxOverrides
        /\ itemPortionPrices' = saved
        /\ toast' = IF saved # itemPortionPrices THEN Toast("success", "Prices updated")
                    ELSE toast
        /\ UNCHANGED << categories, menuItems, inventoryCategories, portionOptions, inventoryItems,
                        lowStockItems, nextId, formVars, sellVars, editVars, removal, regs, adds, menuOps >>

-----------------------------------------------------------------------------
(* The program after construction: two menu items, nothing tracked *)

Init ==
    /\ categories = << [id |-> "c1", name |-> "Drinks"],
                       [id |-> "c2", name |-> "Food"] >>
    /\ menuItems = << [id |-> "m1", category |-> "Drinks", price |-> 150],
                      [id |-> "m2", category |-> "Food", price |-> 150] >>
    /\ inventoryCategories = << >>
    /\ portionOptions = << >>
    /\ inventoryItems = << >>
    /\ itemPortionPrices = {}
    /\ lowStockItems = << >>
    /\ nextId = 1
    /\ stockMenuItemId = ""
    /\ bottleCount = Empty
    /\ bottleSize = NumStr(750)
    /\ customBottleSize = Empty
    /\ toast = Toast("none", "")
    /\ selectorItem = ""
    /\ lastSale = NoSale
    /\ editBottleSizeItemId = ""
    /\ editBottleSizeValue = Empty
    /\ removal = NoRemoval
    /\ regs = 0
    /\ adds = 0
    /\ menuOps = 0

UntrackedIds == {unTrackedCategories[i].id : i \in DOMAIN unTrackedCategories}
TrackedIds == {trackedCategories[i].id : i \in DOMAIN trackedCategories}

\* the Settings tab: the trash button of a tracked category, and the answer
\* to the confirm() dialog
Remove == \E c \in TrackedIds, confirmed \in BOOLEAN : HandleRemoveCategory(c, confirmed)

-----------------------------------------------------------------------------
(* Spec: the stock screens.  Drinks is registered in ml and Food in pcs. *)

QuantityInputs == {Empty, NumStr(0), NumStr(5)}
BottleEntries == { << Empty, NumStr(750), Empty >>,
                   << NumStr(3), NumStr(750), Empty >>,
                   << NumStr(3), Custom, Empty >>,
                   << NumStr(3), Custom, NumStr(2) >> }

\* category, unit and threshold field of the Add Category modal
StockRegistrations == { << "", "pcs", NumStr(5) >>,
                        << "c1", "ml", NumStr(5) >>,
                        << "c2", "pcs", NumStr(5) >>,
                        << "c2", "pcs", Empty >> }

Register ==
    \E r \in StockRegistrations :
        /\ r[1] \in {""} \cup UntrackedIds
        /\ HandleAddInventoryCategory(r[1], r[2], r[3])

SelectStockItem == \E m \in MenuIds : SetStockMenuItemId(m)
TypeBottles == \E e \in BottleEntries : EnterBottles(e[1], e[2], e[3])
SubmitStock == \E q \in QuantityInputs : HandleAddStock(q)

Next ==
    \/ Register
    \/ Remove
    \/ SelectStockItem
    \/ TypeBottles
    \/ SubmitStock
    \/ RenderLowStockAlert

Spec == Init /\ [][Next]_vars

-----------------------------------------------------------------------------
(* Claims about the stock ledger, properties of Spec *)

InventoryItemOf(m) == GetInventoryByMenuItemId(inventoryItems, m)

\* the size field that counts: the custom size when 'custom' is selected
BottleSizeField == IF bottleSize = Custom THEN customBottleSize ELSE bottleSize

\* the quantity the user entered in the form is a number
EnteredIsNumber(q) ==
    IF bottleCount # Empty
    THEN bottleCount.k = "num" /\ BottleSizeField.k = "num"
    ELSE q.k = "num"

\* ... and its value: bottles times size, or the direct quantity
EnteredQuantity(q) ==
    IF bottleCount # Empty THEN bottleCount.v * BottleSizeField.v ELSE q.v

\* C1: stock additivity.  An InventoryItem is created with currentStock 0,
\* its currentStock changes in successful add-stock steps only, and every
\* add-stock of a strictly positive quantity q on a tracked item raises the
\* currentStock of that item by exactly q and changes no other item, so
\* that after q1 .. qn the stock is q1 + ... + qn.
C1_StockAdditivity ==
    [][ /\ \A i \in DOMAIN inventoryItems' :
               (\A j \in DOMAIN inventoryItems : inventoryItems[j].id # inventoryItems'[i].id)
                   => inventoryItems'[i].currentStock = 0
        /\ \A i \in DOMAIN inventoryItems', j \in DOMAIN inventoryItems :
               ( /\ inventoryItems'[i].id = inventoryItems[j].id
                 /\ inventoryItems'[i].currentStock # inventoryItems[j].currentStock )
               => /\ toast' = Toast("success", "Stock added successfully")
                  /\ adds' = adds + 1
        /\ \A q \in QuantityInputs :
               ( /\ HandleAddStock(q)
                 /\ InventoryItemOf(stockMenuItemId) # << >>
                 /\ EnteredIsNumber(q)
                 /\ EnteredQuantity(q) > 0 )
               => /\ DOMAIN inventoryItems' = DOMAIN inventoryItems
                  /\ \A i \in DOMAIN inventoryItems :
                         inventoryItems'[i].currentStock =
                             inventoryItems[i].currentStock
                               + (IF inventoryItems[i].id = InventoryItemOf(stockMenuItemId)[1].id
                                  THEN EnteredQuantity(q) ELSE 0)
      ]_vars

\* C1 witness: an item that received 5 directly and 6 as 3 bottles of 2 ml
\* (in either order) holds 11
C1_Witness ==
    /\ adds = 2
    /\ \E i \in DOMAIN inventoryItems : inventoryItems[i].currentStock = 11

\* C2: bottle transform.  An add-stock entered as c bottles of size s (a
\* preset or a numeric custom size) leaves the InventoryItems, and shows the
\* toast, that a direct quantity of c * s leaves from the same state.
C2_BottleTransform ==
    [][ \A q \in QuantityInputs :
            ( /\ HandleAddStock(q)
              /\ bottleCount.k = "num"
              /\ BottleSizeField.k = "num" )
            => LET direct == AddStockOutcome(stockMenuItemId,
                                 NumStr(bottleCount.v * BottleSizeField.v),
                                 Empty, NumStr(750), Empty, inventoryItems)
               IN  /\ inventoryItems' = direct.items
                   /\ toast' = direct.toast
      ]_vars

\* C2 witness: 3 bottles of 750 ml, and 3 bottles of a custom 2 ml, were added
C2_Witness ==
    /\ toast = Toast("success", "Stock added successfully")
    /\ \E i \in DOMAIN inventoryItems :
           inventoryItems[i].unit = "ml" /\ inventoryItems[i].currentStock = 2250 + 6

C6_QuantityValidation ==
    [][ \A q \in QuantityInputs :
            LET resolved == TotalQuantity(q, bottleCount, bottleSize, customBottleSize)
            IN  ( /\ HandleAddStock(q)
                  /\ ~(resolved.t = "num" /\ resolved.v > 0) )
                => /\ toast'.kind = "error"
                   /\ inventoryItems' = inventoryItems
      ]_vars

\* C7: empty input.  An add-stock with no item selected, or with both the
\* bottle count and the direct quantity empty, shows the validation error
\* and changes neither the store nor the form.
C7_EmptyInputRejected ==
    [][ \A q \in QuantityInputs :
            ( /\ HandleAddStock(q)
              /\ (stockMenuItemId = "" \/ (q = Empty /\ bottleCount = Empty)) )
            => /\ toast' = Toast("error", "Select item and enter quantity")
               /\ UNCHANGED << storeVars, formVars >>
      ]_vars

\* C7 witness: the error was shown for a selected item without a quantity
C7_Witness ==
    /\ toast = Toast("error", "Select item and enter quantity")
    /\ stockMenuItemId # ""
    /\ bottleCount = Empty

\* C8: not tracked.  An add-stock with a quantity for a menu item that has
\* no InventoryItem shows the not-tracked error, creates no InventoryItem
\* and changes no stock.
C8_NotTracked ==
    [][ \A q \in QuantityInputs :
            ( /\ HandleAddStock(q)
              /\ stockMenuItemId # ""
              /\ (q # Empty \/ bottleCount # Empty)
              /\ \A i \in DOMAIN inventoryItems :
                     inventoryItems[i].menuItemId # stockMenuItemId )
            => /\ toast' = Toast("error", "Item not tracked in inventory")
               /\ inventoryItems' = inventoryItems
      ]_vars

\* C8 witness: the error was shown for an item whose category was
\* unregistered after the item was selected
C8_Witness ==
    /\ toast = Toast("error", "Item not tracked in inventory")
    /\ stockMenuItemId # ""
    /\ \A i \in DOMAIN inventoryItems : inventoryItems[i].menuItemId # stockMenuItemId

-----------------------------------------------------------------------------
(* RegistrySpec: the tracking registry next to menu management.  Categories *)
(* are registered and unregistered while the menu changes.                 *)

MenuAdd == \E id \in MenuIds, c \in CategoryNames : AddMenuItem(id, c, 150)
MenuMove == \E m \in Range(menuItems), c \in CategoryNames : UpdateMenuItem(m.id, c, m.price)
MenuDelete == \E id \in MenuIds : DeleteMenuItem(id)

RegistryNext ==
    \/ Register
    \/ Remove
    \/ MenuAdd
    \/ MenuMove
    \/ MenuDelete
    \/ SelectStockItem
    \/ SubmitStock

RegistrySpec == Init /\ [][RegistryNext]_vars

\* the menu items of a category (matched by name, as everywhere in the UI)
MenuItemsOf(catId, menu) ==
    LET cat == Find(Categories, LAMBDA c : c.id = catId)
    IN  {m \in Range(menu) : cat # << >> /\ m.category = cat[1].name}

\* C4: lifecycle round trip.  A confirmed unregistration of a tracked
\* category leaves no InventoryCategory for it, none of its PortionOptions,
\* and no InventoryItem for any menu item of the category, whatever stock
\* additions and menu changes happened since it was registered.
C4_LifecycleRoundTrip ==
    [][ \A c \in TrackedIds :
            HandleRemoveCategory(c, TRUE)
            => LET invCat == Find(inventoryCategories, LAMBDA ic : ic.categoryId = c)
               IN  /\ \A i \in DOMAIN inventoryCategories' :
                          inventoryCategories'[i].categoryId # c
                   /\ \A i \in DOMAIN portionOptions' :
                          portionOptions'[i].inventoryCategoryId # invCat[1].id
                   /\ \A m \in MenuItemsOf(c, menuItems') :
                          \A i \in DOMAIN inventoryItems' :
                              inventoryItems'[i].menuItemId # m.id
      ]_vars

-----------------------------------------------------------------------------
(* PricingSpec: the price editor and the portion selector, while Drinks   *)
(* is registered in ml and unregistered and menu prices change.           *)

MenuPrices == {100, 150}
PriceInputs == {Empty, NumStr(100)}

MenuReprice ==
    \E m \in Range(menuItems), price \in MenuPrices : UpdateMenuItem(m.id, m.category, price)

SavePrices ==
    \E c \in TrackedIds, id \in MenuIds, k \in DOMAIN DEFAULT_PORTIONS_ml, v \in PriceInputs :
        HandleSave(c, id, k, v)

OpenSelector == \E id \in MenuIds : OpenPortionSelector(id)

RegisterDrinks ==
    /\ "c1" \in UntrackedIds
    /\ HandleAddInventoryCategory("c1", "ml", NumStr(5))

PickPortion == \E k \in DOMAIN DEFAULT_PORTIONS_ml : SelectPortion(k)

PricingNext ==
    \/ RegisterDrinks
    \/ Remove
    \/ MenuReprice
    \/ SavePrices
    \/ OpenSelector
    \/ ClosePortionSelector

PricingSpec == Init /\ [][PricingNext]_vars

\* the menu item the portion selector is open for
SelectorItem == Find(menuItems, LAMBDA m : m.id = selectorItem)

\* the price the selector offers for the portion of the given size
OfferedPrice(m, size) ==
    LET portions == SelectorPortions(m)
        k == CHOOSE i \in DOMAIN portions : portions[i].size = size
    IN  Offered(m)[k].price

HasOverride(m) == \E r \in itemPortionPrices : r.menuItemId = m.id

\* an open selector of a 150 item whose category carries the ml ladder
DefaultLadderScenario ==
    /\ SelectorItem # << >>
    /\ SelectorItem[1].price = 150
    /\ ~HasOverride(SelectorItem[1])
    /\ LET portions == SelectorPortions(SelectorItem[1])
       IN  /\ Len(portions) = Len(DEFAULT_PORTIONS_ml)
           /\ \A i \in DOMAIN portions :
                  /\ portions[i].size = DEFAULT_PORTIONS_ml[i].size
                  /\ portions[i].priceMultiplier = DEFAULT_PORTIONS_ml[i].multiplier

\* C3: override precedence.  Every price the portion selector offers for an
\* (item, portion) that has an ItemPortionPrice is exactly that override.
C3_OverridePrecedence ==
    SelectorItem # << >> =>
        LET m == SelectorItem[1]
        IN  \A i \in DOMAIN Offered(m) :
                LET override == GetItemPortionPrice(itemPortionPrices, m.id,
                                                    Offered(m)[i].portionId)
                IN  override.t = "num" => Offered(m)[i].price = override

\* C10 as stated: with the seeded ml ladder and a base price of 150, the
\* 30ml portion is offered at 75 and the 750ml portion at 1500.
C10_DefaultLadderAsStated ==
    DefaultLadderScenario =>
        /\ OfferedPrice(SelectorItem[1], 30) = Num(75)
        /\ OfferedPrice(SelectorItem[1], 750) = Num(1500)

\* C10: with the seeded ml ladder and a base price of 150, and no override
\* for the item, the 30ml portion (the one with the minimum multiplier,
\* 0.5) is offered at the base price 150 and the 750ml portion at 3000.
C10_DefaultLadder ==
    DefaultLadderScenario =>
        /\ OfferedPrice(SelectorItem[1], 30) = Num(150)
        /\ OfferedPrice(SelectorItem[1], 750) = Num(3000)

\* C10 witness: the selector is open in the scenario and offers 30ml at 150
C10_Witness ==
    /\ DefaultLadderScenario
    /\ \E i \in DOMAIN Offered(SelectorItem[1]) :
           Offered(SelectorItem[1])[i].price = Num(150)

-----------------------------------------------------------------------------
(* DerivationSpec: getPortionPrice over base prices and portion ladders.   *)
(* Drinks is tracked, with any non-empty part of a seeded ladder left (the *)
(* rest deleted through the store), and its one menu item has any of the   *)
(* base prices.  For these prices and multipliers the exact division below *)
(* is also what the double arithmetic of the program gives.                *)

DerivationPrices == {0, 1, 99, 150}

DerivationInit ==
    \E price \in DerivationPrices, unit \in {"ml", "pcs"},
       keep \in SUBSET (DOMAIN DEFAULT_PORTIONS_ml) :
        /\ keep # {}
        /\ keep \subseteq DOMAIN DEFAULT_PORTIONS(unit)
        /\ categories = << [id |-> "c1", name |-> "Drinks"],
                           [id |-> "c2", name |-> "Food"] >>
        /\ menuItems = << [id |-> "m1", category |-> "Drinks", price |-> price] >>
        /\ inventoryCategories = << [id |-> 1, categoryId |-> "c1", unitType |-> unit,
                                     lowStockThreshold |-> Num(5)] >>
        /\ portionOptions = SelectSeq(SeedPortions(1, unit, 2),
                                      LAMBDA po : po.sortOrder + 1 \in keep)
        /\ inventoryItems = << NewInventoryItem(2 + Len(DEFAULT_PORTIONS(unit)), "m1",
                                                unit, Num(5)) >>
        /\ itemPortionPrices = {}
        /\ lowStockItems = ComputeLowStock(inventoryItems, inventoryCategories, menuItems)
        /\ nextId = 3 + Len(DEFAULT_PORTIONS(unit))
        /\ stockMenuItemId = ""
        /\ bottleCount = Empty
        /\ bottleSize = NumStr(750)
        /\ customBottleSize = Empty
        /\ toast = Toast("none", "")
        /\ selectorItem = ""
        /\ lastSale = NoSale
        /\ editBottleSizeItemId = ""
        /\ editBottleSizeValue = Empty
        /\ removal = NoRemoval
        /\ regs = 0
        /\ adds = 0
        /\ menuOps = 0

DerivationNext ==
    \/ OpenSelector
    \/ PickPortion
    \/ ClosePortionSelector

DerivationSpec == DerivationInit /\ [][DerivationNext]_vars

\* C9: price derivation.  Without an override, the price offered for a
\* portion is an integer r, the nearest one to basePrice * multiplier /
\* m_min (halves up), where m_min is the minimum priceMultiplier over the
\* PortionOptions of the item's category:
\*     r - 1/2 <= basePrice * multiplier / m_min < r + 1/2
C9_PriceDerivation ==
    SelectorItem # << >> =>
        LET m == SelectorItem[1]
            portions == SelectorPortions(m)
        IN  \A i \in DOMAIN portions :
                LET r == Offered(m)[i].price
                    mMin == portions[CHOOSE k \in DOMAIN portions :
                                \A j \in DOMAIN portions :
                                    portions[k].priceMultiplier <= portions[j].priceMultiplier
                                    ].priceMultiplier
                    x == m.price * portions[i].priceMultiplier
                IN  GetItemPortionPrice(itemPortionPrices, m.id, portions[i].id) = Undefined
                    => /\ r.t = "num"
                       /\ r.v \in Int
                       /\ 2 * r.v * mMin - mMin <= 2 * x
                       /\ 2 * x < 2 * r.v * mMin + mMin

\* C9 witness: base price 99 over a ladder whose minimum multiplier is 2.8;
\* the 13.3 portion is offered at 470 (99 / 2.8 * 13.3 = 470.25)
C9_Witness ==
    /\ SelectorItem # << >>
    /\ SelectorItem[1].price = 99
    /\ MinMultiplier(SelectorPortions(SelectorItem[1])) = 28
    /\ \E i \in DOMAIN Offered(SelectorItem[1]) : Offered(SelectorItem[1])[i].price = Num(470)

\* C11: base portion price.  In a category with at least two PortionOptions
\* the portion with the minimum priceMultiplier is offered at the item's
\* base price.
C11_BasePortionPrice ==
    SelectorItem # << >> =>
        LET m == SelectorItem[1]
            portions == SelectorPortions(m)
        IN  Len(portions) >= 2 =>
                \A i \in DOMAIN portions :
                    (\A j \in DOMAIN portions :
                         portions[i].priceMultiplier <= portions[j].priceMultiplier)
                    => Offered(m)[i].price = Num(m.price)

\* C11 witness: a ladder of at least two portions whose smallest multiplier
\* is 2.8, offered for an item of base price 99
C11_Witness ==
    /\ SelectorItem # << >>
    /\ SelectorItem[1].price = 99
    /\ Len(SelectorPortions(SelectorItem[1])) >= 2
    /\ SelectorPortions(SelectorItem[1])[1].priceMultiplier = 28
    /\ Offered(SelectorItem[1])[1].price = Num(99)

\* C12: price monotonicity.  For an item of non-negative base price, a
\* portion with a greater priceMultiplier is never offered at a lower price.
C12_PriceMonotonicity ==
    SelectorItem # << >> =>
        LET m == SelectorItem[1]
            portions == SelectorPortions(m)
        IN  m.price >= 0 =>
                \A a, b \in DOMAIN portions :
                    portions[a].priceMultiplier > portions[b].priceMultiplier
                    => /\ Offered(m)[a].price.t = "num"
                       /\ Offered(m)[b].price.t = "num"
                       /\ Offered(m)[a].price.v >= Offered(m)[b].price.v

\* C12 witness: base price 1 over the multipliers 0.5, 1.5 and 2.8 gives the
\* prices 1, 3 and 6
C12_Witness ==
    /\ SelectorItem # << >>
    /\ SelectorItem[1].price = 1
    /\ LET o == Offered(SelectorItem[1])
       IN  /\ Len(o) = 3
           /\ o[1].price = Num(1) /\ o[2].price = Num(3) /\ o[3].price = Num(6)

-----------------------------------------------------------------------------
(* TrackingSpec: registration and unregistration next to menu management,  *)
(* without the stock screens.                                              *)

TrackingNext ==
    \/ Register
    \/ Remove
    \/ MenuAdd
    \/ MenuMove
    \/ MenuDelete

TrackingSpec == Init /\ [][TrackingNext]_vars

InventoryCategoriesOf(catId) ==
    {i \in DOMAIN inventoryCategories : inventoryCategories[i].categoryId = catId}

\* C13: each Category has at most one InventoryCategory, in every reachable
\* state.  (The category field of the Add Category form holds '' or a
\* category offered by its list; it is '' again after a successful
\* submission, so that a repeated submission is one without a category.)
C13_OneInventoryCategory ==
    \A c \in Range(Categories) : Cardinality(InventoryCategoriesOf(c.id)) <= 1

\* C13 witness: both categories are tracked, once each, and the form was
\* submitted again after the second registration
C13_Witness ==
    /\ regs = 2
    /\ \A c \in Range(Categories) : Cardinality(InventoryCategoriesOf(c.id)) = 1
    /\ toast = Toast("error", "Select a category")

\* the name of a category
CategoryName(catId) == Find(Categories, LAMBDA c : c.id = catId)[1].name

\* the positions of the InventoryItems a step has appended
AppendedItems == {i \in DOMAIN inventoryItems' : i > Len(inventoryItems)}

\* C14: registration seeding of items.  A registration keeps the existing
\* InventoryItems and appends exactly one for each menu item that is in the
\* category at that moment and none for the menu items of other categories;
\* each new InventoryItem has currentStock 0, the selected unit and the
\* entered threshold.
C14_RegistrationSeedsItems ==
    [][ \A r \in StockRegistrations :
            ( /\ r[1] # ""
              /\ HandleAddInventoryCategory(r[1], r[2], r[3]) )
            => /\ SubSeq(inventoryItems', 1, Len(inventoryItems)) = inventoryItems
               /\ \A m \in Range(menuItems) :
                      Cardinality({i \in AppendedItems : inventoryItems'[i].menuItemId = m.id})
                          = IF m.category = CategoryName(r[1]) THEN 1 ELSE 0
               /\ \A i \in AppendedItems :
                      /\ \E m \in Range(menuItems) : m.id = inventoryItems'[i].menuItemId
                      /\ inventoryItems'[i].currentStock = 0
                      /\ inventoryItems'[i].unit = r[2]
                      /\ r[3].k = "num" => inventoryItems'[i].lowStockThreshold = Num(r[3].v)
      ]_vars

\* C14 witness: Drinks, holding two of the three menu items, was registered
\* in ml: its two items are tracked, the Food item is not
C14_Witness ==
    /\ toast = Toast("success", "added to inventory tracking")
    /\ Len(menuItems) = 3
    /\ Cardinality(MenuItemsOf("c1", menuItems)) = 2
    /\ Len(inventoryItems) = 2
    /\ \A i \in DOMAIN inventoryItems :
           /\ inventoryItems[i].unit = "ml"
           /\ inventoryItems[i].currentStock = 0
           /\ inventoryItems[i].lowStockThreshold = Num(5)
           /\ \E m \in MenuItemsOf("c1", menuItems) : m.id = inventoryItems[i].menuItemId

-----------------------------------------------------------------------------
(* SeedingSpec: registration in every unit the Add Category form offers.   *)

RegisterAnyUnit ==
    \E c \in {""} \cup UntrackedIds, u \in Range(UNIT_OPTIONS) :
        HandleAddInventoryCategory(c, u, NumStr(5))

SeedingNext ==
    \/ RegisterAnyUnit
    \/ Remove

SeedingSpec == Init /\ [][SeedingNext]_vars

\* the template the claim names for a unit type
TemplateOf(u) ==
    IF u = "ml" THEN DEFAULT_PORTIONS_ml
    ELSE IF u \in {"pcs", "grams", "bottle", "pack"} THEN DEFAULT_PORTIONS_pcs
    ELSE << >>

\* C15: portion seeding.  A registration with unit type u keeps the existing
\* PortionOptions and appends one per entry of the template of u, in
\* template order, for the new InventoryCategory, with the entry's size and
\* multiplier and with sortOrder equal to the entry's 0-based position: 7
\* portions for ml, 2 for pcs, and the pcs template for grams, bottle, pack.
C15_PortionSeeding ==
    [][ \A c \in Range(Categories), u \in Range(UNIT_OPTIONS) :
            HandleAddInventoryCategory(c.id, u, NumStr(5))
            => LET n == Len(portionOptions)
                   new == SubSeq(portionOptions', n + 1, Len(portionOptions'))
                   ic == inventoryCategories'[Len(inventoryCategories')]
               IN  /\ SubSeq(portionOptions', 1, n) = portionOptions
                   /\ Len(new) = (IF u = "ml" THEN 7 ELSE 2)
                   /\ Len(new) = Len(TemplateOf(u))
                   /\ ic.categoryId = c.id /\ ic.unitType = u
                   /\ \A i \in DOMAIN new :
                          /\ new[i].inventoryCategoryId = ic.id
                          /\ new[i].size = TemplateOf(u)[i].size
                          /\ new[i].priceMultiplier = TemplateOf(u)[i].multiplier
                          /\ new[i].sortOrder = i - 1
      ]_vars

\* C15 witness: one category is registered in grams with the two pcs
\* portions, the other one in ml with seven portions
C15_Witness ==
    \E a, b \in DOMAIN inventoryCategories :
        /\ inventoryCategories[a].unitType = "grams"
        /\ inventoryCategories[b].unitType = "ml"
        /\ Len(SelectSeq(portionOptions,
                LAMBDA po : po.inventoryCategoryId = inventoryCategories[a].id)) = 2
        /\ Len(SelectSeq(portionOptions,
                LAMBDA po : po.inventoryCategoryId = inventoryCategories[b].id)) = 7
        /\ \E i \in DOMAIN portionOptions :
               /\ portionOptions[i].inventoryCategoryId = inventoryCategories[a].id
               /\ portionOptions[i].sortOrder = 1
               /\ portionOptions[i].priceMultiplier = 180

-----------------------------------------------------------------------------
(* CoverageSpec: registration and unregistration while menu items are      *)
(* added (none is moved or deleted).                                       *)

CoverageNext ==
    \/ Register
    \/ Remove
    \/ MenuAdd

CoverageSpec == Init /\ [][CoverageNext]_vars

\* the positions of the InventoryItems of a menu item
InventoryItemsOf(menuItemId) ==
    {i \in DOMAIN inventoryItems : inventoryItems[i].menuItemId = menuItemId}

\* the category of a menu item is tracked
InTrackedCategory(m) ==
    \E c \in Range(Categories) : c.name = m.category /\ IsTracked(c, inventoryCategories)

-----------------------------------------------------------------------------
(* Further claims about the Add Stock form, properties of Spec *)

\* the currentStock of the selected item grows by d in the step, and no
\* other InventoryItem changes
SelectedStockGrowsBy(d) ==
    /\ DOMAIN inventoryItems' = DOMAIN inventoryItems
    /\ \A i \in DOMAIN inventoryItems :
           inventoryItems'[i] =
               IF inventoryItems[i].id = InventoryItemOf(stockMenuItemId)[1].id
               THEN [inventoryItems[i] EXCEPT !.currentStock = @ + d]
               ELSE inventoryItems[i]

\* C17: bottle precedence.  An add-stock on a tracked item that carries a
\* bottle count and size (their product positive) applies count * size,
\* whatever the direct quantity field holds; the direct quantity is applied
\* when the bottle count is empty.
C17_BottlePrecedence ==
    [][ \A q \in QuantityInputs :
            ( /\ HandleAddStock(q)
              /\ InventoryItemOf(stockMenuItemId) # << >> )
            => /\ ( /\ bottleCount.k = "num"
                    /\ BottleSizeField.k = "num"
                    /\ bottleCount.v * BottleSizeField.v > 0 )
                  => SelectedStockGrowsBy(bottleCount.v * BottleSizeField.v)
               /\ ( /\ bottleCount = Empty
                    /\ q.k = "num"
                    /\ q.v > 0 )
                  => SelectedStockGrowsBy(q.v)
      ]_vars

\* C17 witness: an ml item received 3 bottles of 750 ml in one addition and
\* a direct 5 in another
C17_Witness ==
    /\ adds = 2
    /\ \E i \in DOMAIN inventoryItems :
           inventoryItems[i].unit = "ml" /\ inventoryItems[i].currentStock = 2250 + 5

-----------------------------------------------------------------------------
\* Selling: items are put on the order, through the selector when their
\* category has portions, while the category is registered and removed

OrderItem == \E id \in MenuIds : AddToOrder(id)

SellingNext ==
    \/ RegisterDrinks
    \/ Remove
    \/ MenuReprice
    \/ OrderItem
    \/ PickPortion
    \/ ClosePortionSelector

SellingSpec == Init /\ [][SellingNext]_vars

SoldItem == Find(menuItems, LAMBDA m : m.id = lastSale.menuItemId)

-----------------------------------------------------------------------------
\* Stored ladders: the selector on PortionOptions as the store returns them,
\* whatever their priceMultiplier (a number in tenths, zero included)

StoredMultipliers == {0, 5, 10}

StoredPrices == {0, 99, 150}

StoredLadderInit ==
    \E price \in StoredPrices, first \in StoredMultipliers, second \in StoredMultipliers :
        /\ categories = << [id |-> "c1", name |-> "Drinks"],
                           [id |-> "c2", name |-> "Food"] >>
        /\ menuItems = << [id |-> "m1", category |-> "Drinks", price |-> price] >>
        /\ inventoryCategories = << [id |-> 1, categoryId |-> "c1", unitType |-> "pcs",
                                     lowStockThreshold |-> Num(5)] >>
        /\ portionOptions =
             << [id |-> 2, inventoryCategoryId |-> 1, size |-> 1,
                 priceMultiplier |-> first, sortOrder |-> 0],
                [id |-> 3, inventoryCategoryId |-> 1, size |-> 20,
                 priceMultiplier |-> second, sortOrder |-> 1] >>
        /\ inventoryItems = << NewInventoryItem(4, "m1", "pcs", Num(5)) >>
        /\ itemPortionPrices = {}
        /\ lowStockItems = ComputeLowStock(inventoryItems, inventoryCategories, menuItems)
        /\ nextId = 5
        /\ stockMenuItemId = ""
        /\ bottleCount = Empty
        /\ bottleSize = NumStr(750)
        /\ customBottleSize = Empty
        /\ toast = Toast("none", "")
        /\ selectorItem = ""
        /\ lastSale = NoSale
        /\ editBottleSizeItemId = ""
        /\ editBottleSizeValue = Empty
        /\ removal = NoRemoval
        /\ regs = 0
        /\ adds = 0
        /\ menuOps = 0

StoredLadderNext ==
    \/ OpenSelector
    \/ PickPortion
    \/ ClosePortionSelector

StoredLadderSpec == StoredLadderInit /\ [][StoredLadderNext]_vars

\* C19: when the minimum priceMultiplier of the category's portions is zero,
\* price derivation reports a configuration error and the price handed to the
\* caller is never Infinity or NaN
C19_ZeroBaseMultiplier ==
    /\ \A i \in DOMAIN menuItems :
         LET portions == SelectorPortions(menuItems[i])
         IN  (selectorItem = menuItems[i].id /\ portions # << >>
                /\ MinMultiplier(portions) = 0)
             => toast.kind = "error"
    /\ lastSale.price \notin {NaN, Infinity}

-----------------------------------------------------------------------------
\* Default bottle sizes: the Edit Bottle Size modal next to registration,
\* removal and direct stock entry

BottleSizeInputs == {Custom, NumStr(375), NumStr(750)}

TypedBottleSizes == {Empty, NumStr(0), NumStr(2)}

EditBottleSize == \E m \in MenuIds : OpenEditBottleSize(m)

ChooseBottleSize ==
    \/ \E v \in BottleSizeInputs : SetEditBottleSizeValue(v, FALSE)
    \/ \E v \in TypedBottleSizes : SetEditBottleSizeValue(v, TRUE)

BottleSizeNext ==
    \/ RegisterDrinks
    \/ Remove
    \/ SelectStockItem
    \/ SubmitStock
    \/ EditBottleSize
    \/ ChooseBottleSize
    \/ CancelEditBottleSize
    \/ SaveBottleSize

BottleSizeSpec == Init /\ [][BottleSizeNext]_vars

EditedItem == GetInventoryByMenuItemId(inventoryItems, editBottleSizeItemId)

\* C20: saving a strictly positive size sets the item's defaultBottleSize to it
\* and leaves currentStock, unit and threshold as they were; saving a size that
\* is not strictly positive or not a number shows a validation error and
\* changes nothing
C20_SetDefaultBottleSize ==
    [][(SaveBottleSize /\ EditedItem # << >>)
       => LET size == ParseFloat(editBottleSizeValue)
              after == GetInventoryByMenuItemId(inventoryItems', editBottleSizeItemId)
          IN  IF size.t = "num" /\ size.v > 0
              THEN /\ after # << >>
                   /\ after[1] = [EditedItem[1] EXCEPT !.defaultBottleSize = size]
              ELSE /\ toast'.kind = "error"
                   /\ inventoryItems' = inventoryItems]_vars

-----------------------------------------------------------------------------
\* The ledger under corrections: stock is added through the Add Stock form
\* and corrected by signed deltas sent to the store

Corrections == {-7, -1}

CorrectStock == \E m \in MenuIds, q \in Corrections : AddStock(m, q)

LedgerNext ==
    \/ Register
    \/ SelectStockItem
    \/ SubmitStock
    \/ CorrectStock

LedgerSpec == Init /\ [][LedgerNext]_vars

StockOf(items, m) == GetInventoryByMenuItemId(items, m)[1].currentStock

\* C21: addStock with a negative finite quantity on a tracked item is accepted
\* and sets currentStock to currentStock + q, below zero if q is larger than
\* the stock; the stock of every other item stays as it was
C21_NoClamping ==
    [][\A m \in MenuIds, q \in Corrections :
          (AddStock(m, q) /\ GetInventoryByMenuItemId(inventoryItems, m) # << >>)
          => /\ Len(inventoryItems') = Len(inventoryItems)
             /\ StockOf(inventoryItems', m) = StockOf(inventoryItems, m) + q
             /\ \A i \in DOMAIN inventoryItems :
                    inventoryItems[i].menuItemId # m
                    => inventoryItems'[i] = inventoryItems[i]]_vars

\* a correction larger than the stock has left a tracked item below zero
C21_Witness ==
    /\ adds = 2
    /\ \E i \in DOMAIN inventoryItems :
          /\ inventoryItems[i].menuItemId = "m1"
          /\ inventoryItems[i].currentStock = -2

-----------------------------------------------------------------------------
\* Removal call by call: categories are registered, and removed one store
\* call at a time

RegisterIdle == removal = NoRemoval /\ Register

StartRemoval == \E c \in TrackedIds : BeginRemoveCategory(c)

RemovalNext ==
    \/ RegisterIdle
    \/ StartRemoval
    \/ DeletePortionOption
    \/ DeleteInventoryItem
    \/ DeleteInventoryCategory
    \/ FinishRemoveCategory

RemovalSpec == Init /\ [][RemovalNext]_vars

PortionsLeft(invCatId) ==
    SelectSeq(portionOptions, LAMBDA p : p.inventoryCategoryId = invCatId)

ItemsLeft(catId) ==
    SelectSeq(inventoryItems, LAMBDA ii :
        Some(menuItems, LAMBDA m : m.id = ii.menuItemId /\ m.category = CategoryName(catId)))

\* C22: unregistering deletes the category's PortionOptions first, then the
\* InventoryItems of its menu items, and the InventoryCategory last: an item is
\* deleted only when no portion of the category is left, the category only
\* when no portion and no item is left, and in no state, also in the middle of
\* the handler, does a PortionOption refer to an InventoryCategory that is gone
C22_UnregisterOrdering ==
    /\ [](\A i \in DOMAIN portionOptions :
            Some(inventoryCategories,
                 LAMBDA ic : ic.id = portionOptions[i].inventoryCategoryId))
    /\ [][/\ DeleteInventoryItem => PortionsLeft(removal.invCatId) = << >>
          /\ DeleteInventoryCategory
             => /\ PortionsLeft(removal.invCatId) = << >>
                /\ ItemsLeft(removal.catId) = << >>
                /\ ~ Some(inventoryCategories', LAMBDA ic : ic.categoryId = removal.catId)
          /\ FinishRemoveCategory
             => /\ PortionsLeft(removal.invCatId) = << >>
                /\ ItemsLeft(removal.catId) = << >>
                /\ removal.catId \notin TrackedIds]_vars

\* in the middle of a removal: the portions and the items of the category are
\* deleted, its InventoryCategory is still there
C22_Witness ==
    /\ removal.catId = "c1"
    /\ NextRemovalCall(removal) = "category"
    /\ PortionsLeft(removal.invCatId) = << >>
    /\ ItemsLeft("c1") = << >>
    /\ "c1" \in TrackedIds

-----------------------------------------------------------------------------
\* Thresholds: categories are registered with a threshold of 0 or 5 and stock
\* is added through the form

ThresholdRegistrations == { << "c1", "ml", NumStr(0) >>,
                            << "c1", "ml", NumStr(5) >>,
                            << "c2", "pcs", NumStr(0) >>,
                            << "c2", "pcs", NumStr(5) >> }

RegisterWithThreshold ==
    \E r \in ThresholdRegistrations :
        /\ r[1] \in UntrackedIds
        /\ HandleAddInventoryCategory(r[1], r[2], r[3])

ThresholdNext ==
    \/ RegisterWithThreshold
    \/ Remove
    \/ SelectStockItem
    \/ SubmitStock

ThresholdSpec == Init /\ [][ThresholdNext]_vars

\* C23: an item is flagged low-stock exactly when currentStock <= T, with T
\* the item's lowStockThreshold if set (0 included), else the category's
\* default, else 5; and the highlight of every listed item agrees with the rule
C23_ThresholdResolution ==
    \A i \in DOMAIN inventoryItems :
        LET ii == inventoryItems[i]
            low == LessEq(Num(ii.currentStock),
                          ResolveThreshold(ii, inventoryCategories, menuItems))
        IN  /\ low <=> Some(lowStockItems, LAMBDA l : l.inventoryItemId = ii.id)
            /\ Some(inventoryMenuItems, LAMBDA m : m.id = ii.menuItemId)
               => (IsLow(ii) <=> low)

-----------------------------------------------------------------------------
\* The two states of a category in the store

Untracked(c) ==
    /\ InventoryCategoriesOf(c.id) = {}
    /\ \A m \in MenuItemsOf(c.id, menuItems) : InventoryItemsOf(m.id) = {}

Tracked(c) ==
    /\ Cardinality(InventoryCategoriesOf(c.id)) = 1
    /\ LET ic == Find(inventoryCategories, LAMBDA x : x.categoryId = c.id)[1]
           portions == PortionsLeft(ic.id)
           template == DEFAULT_PORTIONS(ic.unitType)
       IN  /\ Len(portions) = Len(template)
           /\ \A k \in DOMAIN portions :
                 /\ portions[k].size = template[k].size
                 /\ portions[k].priceMultiplier = template[k].multiplier
                 /\ portions[k].sortOrder = k - 1
    /\ \A m \in MenuItemsOf(c.id, menuItems) : Cardinality(InventoryItemsOf(m.id)) = 1

\* C24: in every state of the store, also between the store calls of a
\* registration or a removal, each Category is either Untracked (no
\* InventoryCategory, no PortionOptions, no InventoryItems) or Tracked (its
\* InventoryCategory, the seeded PortionOptions, one InventoryItem per menu
\* item), and every PortionOption belongs to an InventoryCategory
C24_TwoStateRegistry ==
    /\ \A i \in DOMAIN Categories : Untracked(Categories[i]) \/ Tracked(Categories[i])
    /\ \A i \in DOMAIN portionOptions :
          Some(inventoryCategories,
               LAMBDA ic : ic.id = portionOptions[i].inventoryCategoryId)

-----------------------------------------------------------------------------
\* C25: a Tracked category becomes Untracked only in a removal that was
\* confirmed; a removal whose confirmation is declined leaves the
\* InventoryCategories, the PortionOptions and the InventoryItems with their
\* stock as they were, and shows nothing
C25_ConfirmationGate ==
    [][\A c \in TrackedIds :
          /\ c \notin TrackedIds' => HandleRemoveCategory(c, TRUE)
          /\ HandleRemoveCategory(c, FALSE)
             => UNCHANGED << inventoryCategories, portionOptions, inventoryItems,
                             lowStockItems, toast >>]_vars

\* Drinks was removed on confirmation while Food stays tracked with its stock,
\* where a declined removal has something to keep
C25_Witness ==
    /\ toast = Toast("success", "Category removed from inventory")
    /\ TrackedIds = {"c2"}
    /\ regs = 2
    /\ \E i \in DOMAIN inventoryItems :
          inventoryItems[i].menuItemId = "m2" /\ inventoryItems[i].currentStock = 5

-----------------------------------------------------------------------------
\* C27: an add-stock step on an item whose unit is not 'ml' applies the direct
\* quantity, exactly as if no bottle count had been typed, also when a bottle
\* count was typed while an 'ml' item was selected and the selection was then
\* changed; a bottle-derived quantity is never added to such an item
C27_BottlesOnlyForVolume ==
    [][\A q \in QuantityInputs :
          (HandleAddStock(q) /\ SelectedUnit \notin {"", "ml"})
          => inventoryItems' =
                AddStockOutcome(stockMenuItemId, q, Empty, bottleSize, customBottleSize,
                                inventoryItems).items]_vars

-----------------------------------------------------------------------------
\* C28: no orphaned overrides.  In every reachable state the portionOptionId
\* of each stored ItemPortionPrice names an existing PortionOption; so none
\* refers to a deleted PortionOption after its category was unregistered.
C28_NoOrphanedOverrides ==
    \A r \in itemPortionPrices :
        Some(portionOptions, LAMBDA p : p.id = r.portionOptionId)

-----------------------------------------------------------------------------
\* Categories with one display name: the categories table does not make
\* names unique, and a menu item names its category by that name

NamesakeInit ==
    /\ categories = << [id |-> "c1", name |-> "Drinks"],
                       [id |-> "c2", name |-> "Food"],
                       [id |-> "c3", name |-> "Drinks"] >>
    /\ menuItems = << [id |-> "m1", category |-> "Drinks", price |-> 150],
                      [id |-> "m2", category |-> "Food", price |-> 150] >>
    /\ inventoryCategories = << >>
    /\ portionOptions = << >>
    /\ inventoryItems = << >>
    /\ itemPortionPrices = {}
    /\ lowStockItems = << >>
    /\ nextId = 1
    /\ stockMenuItemId = ""
    /\ bottleCount = Empty
    /\ bottleSize = NumStr(750)
    /\ customBottleSize = Empty
    /\ toast = Toast("none", "")
    /\ selectorItem = ""
    /\ lastSale = NoSale
    /\ editBottleSizeItemId = ""
    /\ editBottleSizeValue = Empty
    /\ removal = NoRemoval
    /\ regs = 0
    /\ adds = 0
    /\ menuOps = 0

NamesakeRegistrations == { << "c1", "ml", NumStr(5) >>,
                           << "c2", "pcs", NumStr(5) >>,
                           << "c3", "pcs", NumStr(5) >> }

RegisterNamesake ==
    \E r \in NamesakeRegistrations :
        /\ r[1] \in UntrackedIds
        /\ HandleAddInventoryCategory(r[1], r[2], r[3])

NamesakeNext ==
    \/ RegisterNamesake
    \/ Remove
    \/ SelectStockItem
    \/ SubmitStock

NamesakeSpec == NamesakeInit /\ [][NamesakeNext]_vars

ItemsOfCategory(items, catId) ==
    SelectSeq(items, LAMBDA ii : \E m \in MenuItemsOf(catId, menuItems) : m.id = ii.menuItemId)

\* C29: a confirmed removal of category C deletes C's InventoryCategory, the
\* PortionOptions of that InventoryCategory and InventoryItems of menu items
\* in C, and nothing else: the InventoryCategory, the PortionOptions and the
\* InventoryItems with their stock of every other tracked category are as
\* before, also when that category has the display name of C
C29_RemovalConfined ==
    [][\A c \in TrackedIds :
          HandleRemoveCategory(c, TRUE)
          => LET invCat == Find(inventoryCategories, LAMBDA ic : ic.categoryId = c)[1]
             IN  /\ inventoryCategories' =
                      SelectSeq(inventoryCategories, LAMBDA ic : ic.categoryId # c)
                 /\ portionOptions' =
                      SelectSeq(portionOptions,
                                LAMBDA p : p.inventoryCategoryId # invCat.id)
                 /\ \A i \in DOMAIN inventoryItems :
                       Some(inventoryItems', LAMBDA ii : ii = inventoryItems[i])
                       \/ \E m \in MenuItemsOf(c, menuItems) :
                             m.id = inventoryItems[i].menuItemId
                 /\ \A d \in TrackedIds \ {c} :
                       ItemsOfCategory(inventoryItems', d)
                         = ItemsOfCategory(inventoryItems, d)]_vars

-----------------------------------------------------------------------------
\* The price editor on its own: Drinks is registered and removed, prices are
\* entered, changed and emptied in the editor of its item

EditorInputs == {Empty, NumStr(0), NumStr(100), NumStr(120)}

EditPrices ==
    \E c \in TrackedIds, id \in MenuIds, k \in DOMAIN DEFAULT_PORTIONS_ml,
       v \in EditorInputs :
        HandleSave(c, id, k, v)

EditorNext ==
    \/ RegisterDrinks
    \/ Remove
    \/ EditPrices

EditorSpec == Init /\ [][EditorNext]_vars

\* C30: saving the price editor of an item with one field edited writes an
\* override for that portion exactly when the field is non-empty and differs
\* from the stored override; otherwise, and for every other portion and item,
\* the overrides are as before: an emptied field keeps its override
C30_SaveWritesChangedOnly ==
    [][\A c \in TrackedIds, id \in MenuIds, k \in DOMAIN DEFAULT_PORTIONS_ml,
          v \in EditorInputs :
          HandleSave(c, id, k, v)
          => LET invCat == Find(inventoryCategories, LAMBDA ic : ic.categoryId = c)[1]
                 portionId == PortionsLeft(invCat.id)[k].id
                 stored == GetItemPortionPrice(itemPortionPrices, id, portionId)
                 Edited(r) == r.menuItemId = id /\ r.portionOptionId = portionId
             IN  /\ {r \in itemPortionPrices' : ~Edited(r)}
                      = {r \in itemPortionPrices : ~Edited(r)}
                 /\ GetItemPortionPrice(itemPortionPrices', id, portionId)
                      = IF v # Empty /\ ParseFloat(v) # stored THEN ParseFloat(v)
                        ELSE stored
                 /\ Cardinality({r \in itemPortionPrices' : Edited(r)}) <= 1]_vars

\* an override of the second portion of m1 is stored at 120, with Drinks
\* still tracked: the editor of m1 can be saved with that field emptied or
\* changed back to 100
C30_Witness ==
    /\ toast = Toast("success", "Prices updated")
    /\ \E r \in itemPortionPrices :
          /\ r.menuItemId = "m1"
          /\ r.price = 120
          /\ GetItemPortionPrice(itemPortionPrices, "m1",
                                 SelectorPortions(menuItems[1])[2].id) = Num(120)
    /\ ENABLED HandleSave("c1", "m1", 2, Empty)
    /\ ENABLED HandleSave("c1", "m1", 2, NumStr(100))

=============================================================================
